---- MODULE Spec2Model ----
(***************************************************************************)
(* Model of the multi-backend AI query orchestrator of Sniff Recon         *)
(* (src/src/ai/multi_agent_ai.py): the provider registry built by          *)
(* MultiAgentAI.__init__, the selector _select_provider, the per-chunk     *)
(* failover loop query_single_chunk, the fan-out in query, the aggregator  *)
(* combine_responses and the entry points query_ai_async / query_ai.       *)
(*                                                                         *)
(* Granularity: the code runs on a cooperative event loop, so one action   *)
(* is the code between two suspension points (an await of a network call   *)
(* or of asyncio.gather).                                                  *)
(*                                                                         *)
(* Conventions: Python None is the string NoneVal; a chunk id (a md5       *)
(* prefix of "chunk_<i>_<len>") is the pair <<i, len>>, <<>> standing for  *)
(* None; a record list is the sequence of its record numbers 1..n, and in  *)
(* the orchestrator only its length (chunk_packets reads nothing else to   *)
(* slice).  tokens_used and response_time are left out: they only feed the *)
(* performance summary.                                                    *)
(***************************************************************************)
EXTENDS Integers, Sequences, FiniteSets, TLC

\* ------------------------------------------------------------------ bounds
NumCallers == 2
MaxChunks == 2
FanOutBackends == 2
MaxRecords == 7
MaxResults == 3
MaxThousands == 14
MaxSelections == 24
LargeCount == 20
MaxUsage == 3
MaxRotations == 6
MaxDigestRecords == 4

\* ------------------------------------------------------- program constants
AvgPacketBytes == 1500
BytesPerMB == 1048576
DefaultChunkSizeMB == 5
DefaultMaxPackets == 5000
MaxCascade == 3
JitterMax == 5
DefaultWeight == 33

NoneVal == "<None>"
NoChunkId == <<>>

AllProviders == <<"Groq", "OpenAI", "Anthropic", "Google Gemini">>
Names == {AllProviders[k] : k \in 1..Len(AllProviders)}

DefaultWeights ==
  [n \in Names |-> IF n \in {"Groq", "Anthropic"} THEN 30 ELSE 35]

ZeroGroqWeights == [DefaultWeights EXCEPT !["Groq"] = 0]

VARIABLES
  reg_pc,                  \* "boot", "ready" or "failed": MultiAgentAI()
  providers,               \* self.providers
  active_providers,        \* self.active_providers
  provider_usage_count,    \* self.provider_usage_count (a dict)
  use_weighted_balancing,  \* self.use_weighted_balancing
  provider_weights,        \* self.provider_weights
  pc,                      \* per caller: position in query_ai_async
  request,                 \* per caller: the call it makes, if any
  original,                \* per caller: the local `original`
  chunks,                  \* per caller: the chunk list of query
  task,                    \* per caller: the chunk tasks given to gather
  ret,                     \* per caller: what the entry point returned
  invoked,                 \* per caller, per chunk: the provider.query calls
  thread,                  \* per caller thread: its place in _select_provider
  pin,                     \* input of a pure-function run
  pout                     \* output of a pure-function run

vars == <<reg_pc, providers, active_providers, provider_usage_count,
          use_weighted_balancing, provider_weights, pc, request,
          original, chunks, task, ret, invoked, thread, pin, pout>>

regVars == <<reg_pc, providers, active_providers, provider_usage_count,
             use_weighted_balancing, provider_weights>>
callVars == <<pc, request, original, chunks, task, ret, invoked, thread>>
pureVars == <<pin, pout>>

Callers == 1..NumCallers

\* ----------------------------------------------------------------- helpers
Min(a, b) == IF a <= b THEN a ELSE b
Max(a, b) == IF a >= b THEN a ELSE b

\* math.ceil(a / b) for a >= 0, b > 0
CeilDiv(a, b) == (a + b - 1) \div b

Range(s) == {s[k] : k \in 1..Len(s)}

RECURSIVE SumOver(_, _)
SumOver(f, S) ==
  IF S = {} THEN 0
  ELSE LET x == CHOOSE y \in S : TRUE IN f[x] + SumOver(f, S \ {x})

\* the sequences that list every element of S exactly once
Perms(S) ==
  {s \in [1..Cardinality(S) -> S] : \A a \in S : \E k \in DOMAIN s : s[k] = a}

\* "sep".join(parts)
RECURSIVE Join(_, _)
Join(parts, sep) ==
  IF Len(parts) = 0 THEN ""
  ELSE IF Len(parts) = 1 THEN parts[1]
  ELSE parts[1] \o sep \o Join(Tail(parts), sep)

\* --------------------------------------------------- Chunk Partitioner
\* chunk_id = hashlib.md5(f"chunk_{i}_{count}").hexdigest()[:8]
ChunkId(i, count) == <<i, count>>

\* SliceLoop without the `continue` on an empty slice
RECURSIVE SliceLoop_NoSkip(_, _, _, _)
SliceLoop_NoSkip(i, chunk_count, packets_per_chunk, total_packets) ==
  IF i >= chunk_count THEN <<>>
  ELSE LET start_idx == Min(i * packets_per_chunk, total_packets)
           end_idx == Min((i + 1) * packets_per_chunk, total_packets)
       IN <<[i |-> i, start_idx |-> start_idx, end_idx |-> end_idx]>>
          \o SliceLoop_NoSkip(i + 1, chunk_count, packets_per_chunk,
                              total_packets)

\* The slices [start_idx, end_idx) that chunk_packets cuts from n records
\* under a byte ceiling (chunk_size_mb * 1024 * 1024) and a record ceiling,
\* as records [i, start_idx, end_idx]; empty slices are skipped (continue).
RECURSIVE SliceLoop(_, _, _, _)
SliceLoop(i, chunk_count, packets_per_chunk, total_packets) ==
  IF i >= chunk_count THEN <<>>
  ELSE LET start_idx == i * packets_per_chunk
           end_idx == Min((i + 1) * packets_per_chunk, total_packets)
           rest == SliceLoop(i + 1, chunk_count, packets_per_chunk,
                             total_packets)
       IN IF start_idx >= end_idx
          THEN rest
          ELSE <<[i |-> i, start_idx |-> start_idx, end_idx |-> end_idx]>>
               \o rest

\* ChunkSlicesLoop that takes chunk_count from the record ceiling alone
ChunkSlicesLoop_CountOnly(total_packets, size_bytes, max_packets) ==
  LET chunk_count == CeilDiv(total_packets, max_packets)
      packets_per_chunk == CeilDiv(total_packets, chunk_count)
  IN SliceLoop(0, chunk_count, packets_per_chunk, total_packets)

ChunkSlicesLoop(total_packets, size_bytes, max_packets) ==
  LET chunk_count == Max(CeilDiv(total_packets * AvgPacketBytes, size_bytes),
                         CeilDiv(total_packets, max_packets))
      packets_per_chunk == CeilDiv(total_packets, chunk_count)
  IN SliceLoop(0, chunk_count, packets_per_chunk, total_packets)

\* ChunkSlices whose single chunk stops one record short
ChunkSlices_OneShort(total_packets, size_bytes, max_packets) ==
  IF total_packets = 0 THEN <<>>
  ELSE IF /\ total_packets * AvgPacketBytes <= size_bytes
          /\ total_packets <= max_packets
       THEN <<[i |-> 0, start_idx |-> 0, end_idx |-> total_packets - 1]>>
       ELSE ChunkSlicesLoop(total_packets, size_bytes, max_packets)

ChunkSlices(total_packets, size_bytes, max_packets) ==
  IF total_packets = 0 THEN <<>>
  ELSE IF /\ total_packets * AvgPacketBytes <= size_bytes
          /\ total_packets <= max_packets
       THEN <<[i |-> 0, start_idx |-> 0, end_idx |-> total_packets]>>
       ELSE ChunkSlicesLoop(total_packets, size_bytes, max_packets)

\* One PacketChunk (the digest `summary` is not modelled here).
PacketChunk(packets, sl) ==
  [chunk_id |-> ChunkId(sl.i, sl.end_idx - sl.start_idx),
   packets |-> SubSeq(packets, sl.start_idx + 1, sl.end_idx),
   size_bytes |-> (sl.end_idx - sl.start_idx) * AvgPacketBytes,
   packet_count |-> sl.end_idx - sl.start_idx]

chunk_packets(packets, size_bytes, max_packets) ==
  LET slices == ChunkSlices(Len(packets), size_bytes, max_packets)
  IN [k \in 1..Len(slices) |-> PacketChunk(packets, slices[k])]

\* The inputs of a partition run: n records numbered 1..n, a byte ceiling in
\* steps of a third of a record, a record ceiling.
SizeCeilings == {500 * k : k \in 1..(3 * MaxRecords)}
PartitionInputs ==
  [packets : {[k \in 1..n |-> k] : n \in 0..MaxRecords},
   size_bytes : SizeCeilings,
   max_packets : 1..MaxRecords]

\* a fault raised while query partitions the records (chunk_packets or
\* _extract_chunk_statistics on a record they cannot read), with its str()
NoFault == [raises |-> FALSE, msg |-> ""]
PartitionFaults ==
  {NoFault, [raises |-> TRUE, msg |-> ""],
   [raises |-> TRUE, msg |-> "unreadable packet"]}

\* One call of an entry point: query_ai(prompt, packets) or
\* query_ai_async(prompt, packets, provider_name), with the number of
\* records passed and the fault partitioning them meets, if any.
NoRequest ==
  [calls |-> FALSE, entry |-> "query_ai", name |-> NoneVal, n |-> 0,
   fault |-> NoFault]

Requests(counts) ==
  {r \in [calls : {TRUE}, entry : {"query_ai", "query_ai_async"},
          name : Names \cup {NoneVal}, n : counts, fault : PartitionFaults] :
     /\ r.entry = "query_ai" => r.name = NoneVal
     /\ r.fault.raises => r.n > 0}

InitIdleRegistry ==
  /\ reg_pc = "boot"
  /\ providers = <<>>
  /\ active_providers = <<>>
  /\ provider_usage_count = <<>>
  /\ use_weighted_balancing = TRUE
  /\ provider_weights = DefaultWeights

\* a caller thread that is not inside _select_provider
IdleThread ==
  [pc |-> "idle", tried |-> {}, provider |-> NoneVal, read |-> 0,
   attempt |-> 0, max_attempts |-> 0, returned |-> 0]

InitIdleCallers ==
  /\ pc = [c \in Callers |-> "idle"]
  /\ request = [c \in Callers |-> NoRequest]
  /\ original = [c \in Callers |-> <<>>]
  /\ chunks = [c \in Callers |-> <<>>]
  /\ task = [c \in Callers |-> <<>>]
  /\ ret = [c \in Callers |-> [kind |-> "none"]]
  /\ invoked = [c \in Callers |-> <<>>]
  /\ thread = [c \in Callers |-> IdleThread]

InitPartition ==
  /\ InitIdleRegistry
  /\ InitIdleCallers
  /\ pin \in PartitionInputs
  /\ pout = [done |-> FALSE, chunks |-> <<>>]

Partition ==
  /\ ~pout.done
  /\ pout' = [done |-> TRUE,
              chunks |-> chunk_packets(pin.packets, pin.size_bytes,
                                       pin.max_packets)]
  /\ UNCHANGED <<regVars, callVars, pin>>

NextPartition == Partition

SpecPartition == InitPartition /\ [][NextPartition]_vars

\* the records of all chunks, concatenated in chunk order
RECURSIVE Concat(_)
Concat(cs) == IF Len(cs) = 0 THEN <<>> ELSE cs[1].packets \o Concat(Tail(cs))

\* C10: the chunks returned by chunk_packets are contiguous and
\* non-overlapping, concatenated in chunk order they give back the original
\* record list, no chunk is empty, and an empty input yields no chunk.
C10_PartitionIsExact ==
  pout.done =>
    /\ Concat(pout.chunks) = pin.packets
    /\ \A k \in 1..Len(pout.chunks) :
         /\ Len(pout.chunks[k].packets) > 0
         /\ pout.chunks[k].packet_count = Len(pout.chunks[k].packets)
    /\ (Len(pin.packets) = 0 => pout.chunks = <<>>)

\* a run that split the input in three chunks, after skipping an empty slice
C10_Witness ==
  /\ pout.done
  /\ Len(pout.chunks) = 3
  /\ Len(pin.packets) = 6
  /\ pin.max_packets = 5
  /\ pin.size_bytes = 2500

\* a chunk of a partition run holds at most the record ceiling
ChunkWithinCount(chunk) == chunk.packet_count <= pin.max_packets

\* its estimated size (records * 1500 bytes) is at most the byte ceiling
ChunkWithinSize(chunk) == chunk.packet_count * AvgPacketBytes <= pin.size_bytes

\* C11: every chunk returned by chunk_packets has a record count within
\* the record ceiling and an estimated size (records times 1500 bytes)
\* within the byte ceiling.  (Checked for byte ceilings of at least one
\* record, below which no chunk could fit.)
C11_ChunksWithinCeilings ==
  (pout.done /\ pin.size_bytes >= AvgPacketBytes) =>
    \A k \in 1..Len(pout.chunks) :
      /\ ChunkWithinCount(pout.chunks[k])
      /\ ChunkWithinSize(pout.chunks[k])

\* the record-ceiling half of C11 taken alone
C11_CountCeilingHolds ==
  pout.done => \A k \in 1..Len(pout.chunks) : ChunkWithinCount(pout.chunks[k])

\* the input fits under both ceilings
Fits ==
  /\ Len(pin.packets) * AvgPacketBytes <= pin.size_bytes
  /\ Len(pin.packets) <= pin.max_packets

\* C12 (as stated): every input that fits under both ceilings comes back
\* as exactly one chunk that contains all the records.
C12_SingleChunkForAllInputs ==
  (pout.done /\ Fits) =>
    /\ Len(pout.chunks) = 1
    /\ pout.chunks[1].packets = pin.packets

\* C12 (amended): every non-empty input that fits under both ceilings comes
\* back as exactly one chunk that contains all the records; the empty input
\* comes back as no chunk.
C12_SingleChunkWhenFits ==
  (pout.done /\ Fits) =>
    IF Len(pin.packets) = 0
    THEN pout.chunks = <<>>
    ELSE /\ Len(pout.chunks) = 1
         /\ pout.chunks[1].packets = pin.packets
         /\ pout.chunks[1].packet_count = Len(pin.packets)

\* a run on three records that sit exactly on both ceilings
C12_Witness ==
  /\ pout.done
  /\ Len(pin.packets) = 3
  /\ pin.max_packets = 3
  /\ pin.size_bytes = 3 * AvgPacketBytes
  /\ Len(pout.chunks) = 1

\* ceil(max(estimatedSize / sizeCeiling, recordCount / countCeiling)): the
\* least whole number of chunks that is at least both quotients
ChunkCountOf(n, size_bytes, max_packets) ==
  CHOOSE k \in 1..(n * AvgPacketBytes) :
    /\ k * size_bytes >= n * AvgPacketBytes
    /\ k * max_packets >= n
    /\ \A j \in 1..(k - 1) :
         j * size_bytes < n * AvgPacketBytes \/ j * max_packets < n

\* ceil(recordCount / chunkCount)
RecordsPerChunkOf(n, chunk_count) ==
  CHOOSE p \in 1..n :
    p * chunk_count >= n /\ \A q \in 1..(p - 1) : q * chunk_count < n

\* every chunk holds exactly p records, the last one from 1 to p
FullChunksThenRest(cs, p) ==
  \A k \in 1..Len(cs) :
    IF k < Len(cs) THEN cs[k].packet_count = p
    ELSE cs[k].packet_count \in 1..p

\* C24 (as stated): an input over a ceiling comes back as exactly
\* chunkCount chunks of recordsPerChunk records each, the last one
\* possibly shorter.
C24_ExactlyChunkCountChunks ==
  (pout.done /\ ~Fits) =>
    LET n == Len(pin.packets)
        chunk_count == ChunkCountOf(n, pin.size_bytes, pin.max_packets)
    IN /\ Len(pout.chunks) = chunk_count
       /\ FullChunksThenRest(pout.chunks, RecordsPerChunkOf(n, chunk_count))

\* C24 (amended): an input over a ceiling comes back as
\* ceil(recordCount / recordsPerChunk) chunks, which is at most chunkCount
\* (slices that would be empty are not returned), of recordsPerChunk
\* records each, the last one possibly shorter.
C24_AtMostChunkCountChunks ==
  (pout.done /\ ~Fits) =>
    LET n == Len(pin.packets)
        chunk_count == ChunkCountOf(n, pin.size_bytes, pin.max_packets)
        per_chunk == RecordsPerChunkOf(n, chunk_count)
    IN /\ Len(pout.chunks) <= chunk_count
       /\ (Len(pout.chunks) - 1) * per_chunk < n
       /\ Len(pout.chunks) * per_chunk >= n
       /\ FullChunksThenRest(pout.chunks, per_chunk)

\* a run where chunkCount is 3 and two chunks of two records come back
C24_Witness ==
  /\ pout.done
  /\ Len(pin.packets) = 4
  /\ pin.size_bytes = 2000
  /\ pin.max_packets = 2
  /\ ChunkCountOf(4, pin.size_bytes, pin.max_packets) = 3
  /\ Len(pout.chunks) = 2

\* ------------------------------------ partitioning at the real ceilings
\* chunk_packets seen through its record counts only: records by the
\* thousand, chunk_size_mb and max_packets_per_chunk up to their defaults.
ChunkCounts(total_packets, size_bytes, max_packets) ==
  LET slices == ChunkSlices(total_packets, size_bytes, max_packets)
  IN [k \in 1..Len(slices) |-> slices[k].end_idx - slices[k].start_idx]

ScenarioInputs ==
  [total_packets : {1000 * k : k \in 1..MaxThousands},
   chunk_size_mb : 1..DefaultChunkSizeMB,
   max_packets_per_chunk : {1000 * k : k \in 1..(DefaultMaxPackets \div 1000)}]

InitScenario ==
  /\ InitIdleRegistry
  /\ InitIdleCallers
  /\ pin \in ScenarioInputs
  /\ pout = [done |-> FALSE, counts |-> <<>>]

PartitionScenario ==
  /\ ~pout.done
  /\ pout' = [done |-> TRUE,
              counts |-> ChunkCounts(pin.total_packets,
                                     pin.chunk_size_mb * BytesPerMB,
                                     pin.max_packets_per_chunk)]
  /\ UNCHANGED <<regVars, callVars, pin>>

NextScenario == PartitionScenario

SpecScenario == InitScenario /\ [][NextScenario]_vars

\* 12,000 records under the default ceilings (5 MB, 5,000 records)
Scenario12000 ==
  /\ pin.total_packets = 12000
  /\ pin.chunk_size_mb = DefaultChunkSizeMB
  /\ pin.max_packets_per_chunk = DefaultMaxPackets

\* C13 (as stated): 12,000 records under a 5 MB and a 5,000-record ceiling
\* are cut by the record ceiling in exactly 3 chunks of 4,000 records.
C13_ScenarioThreeChunks ==
  (pout.done /\ Scenario12000) => pout.counts = <<4000, 4000, 4000>>

\* C13 (amended): 12,000 records under a 5 MB and a 5,000-record ceiling
\* are cut by the byte ceiling (18,000,000 estimated bytes need 4 chunks of
\* 5 MB, the record ceiling only 3) in exactly 4 chunks of 3,000 records.
C13_ScenarioFourChunks ==
  (pout.done /\ Scenario12000) =>
    /\ pout.counts = <<3000, 3000, 3000, 3000>>
    /\ CeilDiv(pin.total_packets * AvgPacketBytes,
               pin.chunk_size_mb * BytesPerMB) = 4
    /\ CeilDiv(pin.total_packets, pin.max_packets_per_chunk) = 3

C13_Witness == pout.done /\ Scenario12000 /\ Len(pout.counts) = 4

\* ------------------------------------------------- Response Aggregator
\* AIResponse(success, response, error, provider, chunk_id)
AIResponse(success, response, error, provider, chunk_id) ==
  [success |-> success, response |-> response, error |-> error,
   provider |-> provider, chunk_id |-> chunk_id]

\* str(n) for 0 <= n
Digits == <<"0", "1", "2", "3", "4", "5", "6", "7", "8", "9">>
RECURSIVE ToStr(_)
ToStr(n) ==
  IF n < 10 THEN Digits[n + 1] ELSE ToStr(n \div 10) \o Digits[(n % 10) + 1]

\* sorted(set of provider names): the names in alphabetical order
SortedNames == <<"Anthropic", "Google Gemini", "Groq", "OpenAI">>
Sorted(S) == SelectSeq(SortedNames, LAMBDA n : n \in S)

Successful(responses) == SelectSeq(responses, LAMBDA r : r.success)
Failed(responses) == SelectSeq(responses, LAMBDA r : ~r.success)

FailureBanner ==
  "Analysis failed for all chunks. Please check your AI provider connections."

SummaryLine(responses) ==
  "**Multi-Chunk Analysis Summary** ("
    \o ToStr(Len(Successful(responses))) \o "/" \o ToStr(Len(responses))
    \o " chunks analyzed successfully)\n\n"

SectionTitle(i, response) ==
  "### Chunk " \o ToStr(i) \o " Analysis (" \o response.provider \o "):\n"

SectionBody(response) == response.response \o "\n\n"

SectionRule == "---\n\n"

FailureNote(failed_responses) ==
  "**Note**: " \o ToStr(Len(failed_responses))
    \o " chunks failed to analyze due to errors.\n"

ProvidersLine(successful_responses) ==
  "- Providers used: "
    \o Join(Sorted({successful_responses[k].provider :
                      k \in 1..Len(successful_responses)} \ {NoneVal}), ", ")
    \o "\n"

\* Sections with enumerate(successful_responses): numbered from 0
RECURSIVE Sections_ZeroBased(_, _)
Sections_ZeroBased(successful_responses, i) ==
  IF i > Len(successful_responses) THEN <<>>
  ELSE <<SectionTitle(i - 1, successful_responses[i]),
         SectionBody(successful_responses[i]),
         SectionRule>> \o Sections_ZeroBased(successful_responses, i + 1)

\* for i, response in enumerate(successful_responses, 1): three pieces each
RECURSIVE Sections(_, _)
Sections(successful_responses, i) ==
  IF i > Len(successful_responses) THEN <<>>
  ELSE <<SectionTitle(i, successful_responses[i]),
         SectionBody(successful_responses[i]),
         SectionRule>> \o Sections(successful_responses, i + 1)

\* combine_responses: the text, as the sequence of the pieces appended to
\* it (the time and token lines of the performance summary are left out).
combine_responses(responses) ==
  LET successful_responses == Successful(responses)
      failed_responses == Failed(responses)
  IN IF Len(successful_responses) = 0
     THEN <<FailureBanner>>
     ELSE <<SummaryLine(responses)>>
          \o Sections(successful_responses, 1)
          \o (IF Len(failed_responses) > 0
              THEN <<FailureNote(failed_responses)>> ELSE <<>>)
          \o <<"\n**Performance Summary**:\n",
               ProvidersLine(successful_responses)>>

\* AnySuccess with all() in place of any()
AnySuccess_All(responses) ==
  \A k \in 1..Len(responses) : responses[k].success

AnySuccess(responses) == \E k \in 1..Len(responses) : responses[k].success

\* the dict query_ai_async returns
QueryResultDict(responses) ==
  [kind |-> "dict",
   success |-> AnySuccess(responses),
   response |-> combine_responses(responses),
   error |-> IF AnySuccess(responses) THEN NoneVal ELSE "All providers failed",
   provider_responses |-> responses]

\* Per-chunk results as query returns them: a success names its backend and
\* has a text; a failure has an error text and no backend.
SampleResults ==
  {AIResponse(TRUE, t, NoneVal, p, NoChunkId) :
     t \in {"scan seen", "all quiet"}, p \in {"Groq", "OpenAI"}}
  \cup {AIResponse(FALSE, "", e, NoneVal, NoChunkId) :
          e \in {"Groq: Unknown error", "No valid packet data to analyze"}}

ResultLists ==
  UNION {[1..n -> SampleResults] : n \in 0..MaxResults}

InitCombine ==
  /\ InitIdleRegistry
  /\ InitIdleCallers
  /\ pin \in ResultLists
  /\ pout = [done |-> FALSE, result |-> [kind |-> "none"]]

Combine ==
  /\ ~pout.done
  /\ pout' = [done |-> TRUE, result |-> QueryResultDict(pin)]
  /\ UNCHANGED <<regVars, callVars, pin>>

NextCombine == Combine

SpecCombine == InitCombine /\ [][NextCombine]_vars

\* C3: the overall success flag is true iff at least one per-chunk result
\* succeeded; with no success (an empty list or only failures) the combined
\* text is exactly the failure banner and the error summary is set; with a
\* success the error summary is absent.
C3_SuccessFlag ==
  pout.done =>
    LET some == \E k \in 1..Len(pin) : pin[k].success = TRUE
    IN /\ pout.result.success = some
       /\ ~some => /\ pout.result.response = <<FailureBanner>>
                   /\ pout.result.error # NoneVal
                   /\ pout.result.error # ""
       /\ some => /\ pout.result.error = NoneVal
                  /\ pout.result.response # <<FailureBanner>>

\* a combined run over the empty list, and one where the last of three
\* results is the only success
C3_Witness ==
  /\ pout.done
  /\ Len(pin) = MaxResults
  /\ pin[MaxResults].success
  /\ \A k \in 1..(MaxResults - 1) : ~pin[k].success
  /\ pout.result.success

C3_WitnessEmpty ==
  /\ pout.done
  /\ pin = <<>>
  /\ ~pout.result.success

\* the positions of the successes in a result list, in order
SuccessIdx(rs) == SelectSeq([k \in 1..Len(rs) |-> k], LAMBDA k : rs[k].success)

\* C4: with S >= 1 successes and F >= 1 failures the combined text holds
\* exactly S analysis sections, one per success, in result order, numbered
\* 1..S, each naming its backend and holding its text, then one note that
\* states F; S + F is the number of results.
C4_PartialSuccessKept ==
  pout.done =>
    LET idx == SuccessIdx(pin)
        S == Len(idx)
        F == Cardinality({k \in 1..Len(pin) : ~pin[k].success})
        text == pout.result.response
    IN (S >= 1 /\ F >= 1) =>
         /\ S + F = Len(pin)
         /\ Len(text) = 1 + 3 * S + 1 + 2
         /\ \A j \in 1..S :
              /\ text[3 * j - 1] =
                   "### Chunk " \o ToStr(j) \o " Analysis ("
                     \o pin[idx[j]].provider \o "):\n"
              /\ text[3 * j] = pin[idx[j]].response \o "\n\n"
         /\ text[3 * S + 2] =
              "**Note**: " \o ToStr(F)
                \o " chunks failed to analyze due to errors.\n"

\* two successes around one failure
C4_Witness ==
  /\ pout.done
  /\ Len(pin) = 3
  /\ pin[1].success /\ ~pin[2].success /\ pin[3].success
  /\ pin[1].provider # pin[3].provider
  /\ pin[1].response # pin[3].response

\* ------------------------------------------------------ Backend Registry
\* the dict's get(name, default)
Get(dict, name, default) == IF name \in DOMAIN dict THEN dict[name] ELSE default

\* dict[name] = value
Put(dict, name, value) ==
  [n \in (DOMAIN dict) \cup {name} |-> IF n = name THEN value ELSE dict[n]]

HealthOutcomes == {"ok", "down", "raise"}

\* Passing that drops only the providers whose check returned False
Passing_AllButDown(configured, health) ==
  {n \in Range(configured) : health[n] # "down"}

\* the providers whose test_connection returned True: a check that returns
\* False ("down") or raises is logged and the provider left out
Passing(configured, health) == {n \in Range(configured) : health[n] = "ok"}

\* MultiAgentAI.__init__ -> _test_providers: a thread pool as wide as the
\* configured list (a width of 0 raises ValueError), every provider that
\* passes test_connection is kept, the kept list is shuffled and every kept
\* provider gets a usage count of 0.
ConstructWith(health) ==
  /\ reg_pc = "boot"
  /\ \/ /\ Len(providers) = 0
        /\ reg_pc' = "failed"
        /\ UNCHANGED <<active_providers, provider_usage_count>>
     \/ /\ Len(providers) > 0
        /\ LET passing == Passing(providers, health)
           IN \E shuffled \in Perms(passing) :
                /\ active_providers' = shuffled
                /\ provider_usage_count' = [n \in passing |-> 0]
        /\ reg_pc' = "ready"
  /\ UNCHANGED <<providers, use_weighted_balancing, provider_weights,
                 callVars, pureVars>>

\* construction, whatever the health checks answer
Construct ==
  \E health \in [Range(providers) -> HealthOutcomes] : ConstructWith(health)

\* ------------------------------------------------------ Backend Selector
\* Candidates that does not honour the exclusions
Candidates_IgnoreExclude(active, exclude) == active

\* candidates = [p for p in active_providers if p.name not in exclude]
Candidates(active, exclude) == SelectSeq(active, LAMBDA n : n \notin exclude)

TotalQueries(usage) == SumOver(usage, DOMAIN usage)

\* score(a) can exceed score(b) for some jitter in [0, JitterMax] on each:
\* (target_a - actual_a) + JitterMax > (target_b - actual_b), the actual
\* percentages being usage / total * 100 (compared after multiplying by
\* total); CanTie is the same with >=.
Deficit100(weights, usage, total, n) ==
  Get(weights, n, DefaultWeight) * total - 100 * Get(usage, n, 0)

CanBeat(weights, usage, total, a, b) ==
  Deficit100(weights, usage, total, a) + JitterMax * total
    > Deficit100(weights, usage, total, b)

CanTie(weights, usage, total, a, b) ==
  Deficit100(weights, usage, total, a) + JitterMax * total
    >= Deficit100(weights, usage, total, b)

\* ScoreWinners that lets any candidate win, whatever its score
ScoreWinners_AnyCandidate(candidates, weights, usage) == 1..Len(candidates)

\* scores.index(max(scores)): position k wins when its score is above every
\* earlier score and not below any later one.
ScoreWinners(candidates, weights, usage) ==
  LET total == TotalQueries(usage)
  IN {k \in 1..Len(candidates) :
        /\ \A j \in 1..(k - 1) :
             CanBeat(weights, usage, total, candidates[k], candidates[j])
        /\ \A j \in (k + 1)..Len(candidates) :
             CanTie(weights, usage, total, candidates[k], candidates[j])}

\* random.choices(candidates, weights): a candidate of positive weight
FirstQueryWinners(candidates, weights) ==
  {k \in 1..Len(candidates) : Get(weights, candidates[k], DefaultWeight) > 0}

\* Rotate that pops the head and never appends it
Rotate_DropHead(active) == Tail(active)

\* self.active_providers.append(self.active_providers.pop(0))
Rotate(active) == Tail(active) \o <<Head(active)>>

\* Selected without the usage tracking
Selected_NoCount(provider, active, usage) ==
  [kind |-> "provider", provider |-> provider, active |-> active,
   usage |-> usage, error |-> NoneVal]

Selected(provider, active, usage) ==
  [kind |-> "provider", provider |-> provider, active |-> active,
   usage |-> Put(usage, provider, Get(usage, provider, 0) + 1),
   error |-> NoneVal]

NotSelected(kind, error, active, usage) ==
  [kind |-> kind, provider |-> NoneVal, active |-> active, usage |-> usage,
   error |-> error]

WeightedSelect(candidates, active, usage, weights) ==
  IF TotalQueries(usage) = 0
  THEN IF FirstQueryWinners(candidates, weights) = {}
       THEN {NotSelected("raise",
                         "Total of weights must be greater than zero",
                         active, usage)}
       ELSE {Selected(candidates[k], active, usage) :
               k \in FirstQueryWinners(candidates, weights)}
  ELSE {Selected(candidates[k], active, usage) :
          k \in ScoreWinners(candidates, weights, usage)}

\* RoundRobinSelect that rotates under exclusions too
RoundRobinSelect_AlwaysRotate(candidates, active, usage, exclude) ==
  {Selected(candidates[1], Rotate(active), usage)}

RoundRobinSelect(candidates, active, usage, exclude) ==
  {Selected(candidates[1],
            IF exclude = {} THEN Rotate(active) ELSE active, usage)}

\* _select_provider(chunk, exclude): every outcome the random draws allow,
\* each with the registry state it leaves.
SelectProvider(active, usage, weighted, weights, exclude) ==
  IF Len(active) = 0 THEN {NotSelected("none", NoneVal, active, usage)}
  ELSE IF Len(Candidates(active, exclude)) = 0
       THEN {NotSelected("none", NoneVal, active, usage)}
       ELSE IF weighted
            THEN WeightedSelect(Candidates(active, exclude), active, usage,
                                weights)
            ELSE RoundRobinSelect(Candidates(active, exclude), active, usage,
                                  exclude)

\* ------------------------------------- repeated selection with feedback
\* _select_provider called again and again in weighted mode without
\* exclusions on a registry with the default weights, every call seeing the
\* usage counts the earlier calls left.
InitConverge ==
  /\ reg_pc = "ready"
  /\ providers = AllProviders
  /\ \E S \in (SUBSET Names) \ {{}} :
       /\ active_providers \in Perms(S)
       /\ provider_usage_count = [n \in S |-> 0]
  /\ use_weighted_balancing = TRUE
  /\ provider_weights = DefaultWeights
  /\ InitIdleCallers
  /\ pin = [exclude |-> {}]
  /\ pout = [selected |-> NoneVal]

SelectAgain ==
  /\ TotalQueries(provider_usage_count) < MaxSelections
  /\ \E sel \in SelectProvider(active_providers, provider_usage_count,
                                use_weighted_balancing, provider_weights,
                                pin.exclude) :
       /\ sel.kind = "provider"
       /\ active_providers' = sel.active
       /\ provider_usage_count' = sel.usage
       /\ pout' = [selected |-> sel.provider]
  /\ UNCHANGED <<reg_pc, providers, use_weighted_balancing, provider_weights,
                 callVars, pin>>

NextConverge == SelectAgain

SpecConverge == InitConverge /\ [][NextConverge]_vars

Abs(x) == IF x < 0 THEN -x ELSE x

\* the share of n in all selections is within `points` percentage points
\* of its configured weight
WithinPoints(n, points) ==
  Abs(Deficit100(provider_weights, provider_usage_count,
                 TotalQueries(provider_usage_count), n))
    <= points * TotalQueries(provider_usage_count)

\* C14: once many selections were made in weighted mode without exclusions,
\* every healthy backend's share of the selections is within 5 percentage
\* points of its configured target percentage, and stays there.
C14_SharesConverge ==
  TotalQueries(provider_usage_count) >= LargeCount =>
    \A n \in Range(active_providers) : WithinPoints(n, 5)

\* with the four backends healthy (weights 30 + 35 + 35 + 30 = 130) some
\* backend is more than 5 points below its weight after every selection
C14_FourBackendsStayBelow ==
  (Len(active_providers) = 4 /\ TotalQueries(provider_usage_count) >= 1) =>
    \E n \in Range(active_providers) : ~WithinPoints(n, 5)

\* --------------------------------------------------- Backend Adapter
\* What one provider.query call can come to: "ok" a 200 answer with a text,
\* "ok_empty" a 200 answer whose text is empty, "http" a non-200 answer,
\* "exc" an exception caught by the adapter whose str() is empty (a timeout),
\* "raise" an exception that leaves provider.query.
QueryOutcomes == {"ok", "ok_empty", "http", "exc", "raise"}

HttpError == "HTTP 429: insufficient_quota"
RaisedError == "Connection reset"

\* the AIResponse of <Provider>.query (chunk_id is not set by the adapter)
AdapterResponse(name, outcome) ==
  CASE outcome = "ok" ->
         AIResponse(TRUE, "Analysis by " \o name, NoneVal, name, NoChunkId)
    [] outcome = "ok_empty" -> AIResponse(TRUE, "", NoneVal, name, NoChunkId)
    [] outcome = "http" -> AIResponse(FALSE, "", HttpError, name, NoChunkId)
    [] outcome = "exc" -> AIResponse(FALSE, "", "", name, NoChunkId)

\* ------------------------------------------------- Dispatch Orchestrator
NoResult == [kind |-> "none"]
Returned(response) == [kind |-> "response", value |-> response]
Raised(error) == [kind |-> "exception", error |-> error]

NewTask(chunk) ==
  [st |-> "pending", chunk_id |-> chunk.chunk_id, tried |-> {},
   errors |-> <<>>, max_attempts |-> 0, attempt |-> 0,
   provider |-> NoneVal, result |-> NoResult]

\* try: response = await provider.query(...) except: AIResponse(failure);
\* then response.provider = response.provider or provider.name and
\* response.chunk_id = chunk.chunk_id
ReceivedResponse(provider, outcome, chunk_id) ==
  LET response == IF outcome = "raise"
                  THEN AIResponse(FALSE, "", RaisedError, provider, NoChunkId)
                  ELSE AdapterResponse(provider, outcome)
  IN [response EXCEPT
        !.provider = IF response.provider \in {NoneVal, ""}
                     THEN provider ELSE response.provider,
        !.chunk_id = chunk_id]

\* ErrText without the fallback
ErrText_NoFallback(response) == response.error

\* err_text = response.error or "Unknown error"
ErrText(response) ==
  IF response.error \in {NoneVal, ""} THEN "Unknown error" ELSE response.error

\* LogFailure with errors.insert(0, ...) in place of errors.append(...)
LogFailure_Prepend(t, provider, response) ==
  [t EXCEPT !.errors =
              <<provider \o ": "
                  \o (IF response.error \in {NoneVal, ""}
                      THEN "Unknown error" ELSE response.error)>> \o @,
            !.tried = @ \cup {provider}]

\* errors.append(f"{provider.name}: {err_text}"); tried.add(provider.name)
LogFailure(t, provider, response) ==
  [t EXCEPT !.errors = Append(@, provider \o ": " \o ErrText(response)),
            !.tried = @ \cup {provider}]

\* AllFailed that reports the last error only
AllFailed_LastOnly(t) ==
  [t EXCEPT
     !.st = "done", !.provider = NoneVal,
     !.result = Returned(AIResponse(FALSE, "",
                                    IF Len(t.errors) > 0
                                    THEN t.errors[Len(t.errors)]
                                    ELSE "All providers failed",
                                    NoneVal, t.chunk_id))]

\* the return after the loop: all attempts failed
AllFailed(t) ==
  [t EXCEPT
     !.st = "done", !.provider = NoneVal,
     !.result = Returned(AIResponse(FALSE, "",
                                    IF Len(t.errors) > 0
                                    THEN Join(t.errors, "; ")
                                    ELSE "All providers failed",
                                    NoneVal, t.chunk_id))]

\* NextAttempt without the bound on the number of attempts
NextAttempt_Unbounded(t, active, usage, weighted, weights) ==
  {[task |->
      CASE sel.kind = "none" -> AllFailed(t)
        [] sel.kind = "raise" ->
             [t EXCEPT !.st = "done", !.provider = NoneVal,
                       !.result = Raised(sel.error)]
        [] sel.kind = "provider" ->
             [t EXCEPT !.st = "awaiting", !.provider = sel.provider,
                       !.attempt = @ + 1],
    active |-> sel.active, usage |-> sel.usage] :
     sel \in SelectProvider(active, usage, weighted, weights, t.tried)}

\* One pass through the head of the loop of query_single_chunk, up to the
\* await of provider.query: the task as it is left, with the registry state.
NextAttempt(t, active, usage, weighted, weights) ==
  IF t.attempt >= t.max_attempts
  THEN {[task |-> AllFailed(t), active |-> active, usage |-> usage]}
  ELSE {[task |->
           CASE sel.kind = "none" -> AllFailed(t)
             [] sel.kind = "raise" ->
                  [t EXCEPT !.st = "done", !.provider = NoneVal,
                            !.result = Raised(sel.error)]
             [] sel.kind = "provider" ->
                  [t EXCEPT !.st = "awaiting", !.provider = sel.provider,
                            !.attempt = @ + 1],
         active |-> sel.active, usage |-> sel.usage] :
          sel \in SelectProvider(active, usage, weighted, weights, t.tried)}

\* query_single_chunk from its start to its first await
TaskStart(c, i) ==
  /\ pc[c] = "gathering"
  /\ task[c][i].st = "pending"
  /\ LET t == [task[c][i] EXCEPT
                 !.max_attempts = Min(Len(active_providers), MaxCascade)]
     IN \E o \in NextAttempt(t, active_providers, provider_usage_count,
                             use_weighted_balancing, provider_weights) :
          /\ task' = [task EXCEPT ![c][i] = o.task]
          /\ active_providers' = o.active
          /\ provider_usage_count' = o.usage
  /\ UNCHANGED <<reg_pc, providers, use_weighted_balancing, provider_weights,
                 pc, request, original, chunks, ret, invoked, thread,
                 pureVars>>

\* query_single_chunk from the answer of provider.query to its next await
\* or its return
TaskResume(c, i) ==
  /\ pc[c] = "gathering"
  /\ task[c][i].st = "awaiting"
  /\ \E outcome \in QueryOutcomes :
       LET t == task[c][i]
           response == ReceivedResponse(t.provider, outcome, t.chunk_id)
       IN /\ invoked' = [invoked EXCEPT ![c][i] =
                           Append(@, [provider |-> t.provider,
                                      outcome |-> outcome])]
          /\ IF response.success /\ response.response # ""
             THEN /\ task' = [task EXCEPT ![c][i] =
                                [t EXCEPT !.st = "done",
                                          !.provider = NoneVal,
                                          !.result = Returned(response)]]
                  /\ UNCHANGED <<active_providers, provider_usage_count>>
             ELSE \E o \in NextAttempt(LogFailure(t, t.provider, response),
                                       active_providers,
                                       provider_usage_count,
                                       use_weighted_balancing,
                                       provider_weights) :
                    /\ task' = [task EXCEPT ![c][i] = o.task]
                    /\ active_providers' = o.active
                    /\ provider_usage_count' = o.usage
  /\ UNCHANGED <<reg_pc, providers, use_weighted_balancing, provider_weights,
                 pc, request, original, chunks, ret, thread, pureVars>>

\* a record count that query cuts in k chunks (k = 0 .. 7)
PacketsFor(k) == 3000 * k

\* the chunks of query, by id and record count
QueryChunks(n) ==
  LET slices == ChunkSlices(n, DefaultChunkSizeMB * BytesPerMB,
                            DefaultMaxPackets)
  IN [k \in 1..Len(slices) |->
        [chunk_id |-> ChunkId(slices[k].i,
                              slices[k].end_idx - slices[k].start_idx),
         packet_count |-> slices[k].end_idx - slices[k].start_idx]]

NoProvidersResponse ==
  AIResponse(FALSE, "", "No active AI providers available", NoneVal,
             NoChunkId)

NoPacketsResponse ==
  AIResponse(FALSE, "", "No valid packet data to analyze", NoneVal,
             NoChunkId)

\* selected = [p for p in multi_agent.active_providers if p.name == name]
SelectedByName(active, name) == SelectSeq(active, LAMBDA n : n = name)

\* query_ai's except branch
FaultDict(msg) ==
  [kind |-> "dict", success |-> FALSE, response |-> <<>>, error |-> msg]

\* an exception that leaves query_ai_async
FaultRaised(msg) == [kind |-> "raised", error |-> msg]

\* QueryHead that partitions before it looks at the provider list
QueryHead_PartitionFirst(active, n, fault) ==
  IF n > 0 /\ fault.raises
  THEN [kind |-> "raised", responses |-> <<>>, chunks |-> <<>>,
        error |-> fault.msg]
  ELSE IF Len(active) = 0
       THEN [kind |-> "returned", responses |-> <<NoProvidersResponse>>,
             chunks |-> <<>>, error |-> NoneVal]
       ELSE IF Len(QueryChunks(n)) = 0
            THEN [kind |-> "returned", responses |-> <<NoPacketsResponse>>,
                  chunks |-> <<>>, error |-> NoneVal]
            ELSE [kind |-> "gather", responses |-> <<>>,
                  chunks |-> QueryChunks(n), error |-> NoneVal]

\* query(prompt, packets) up to its first suspension: "returned" with the
\* responses of an early return, "raised" with the fault, or "gather" with
\* the chunks whose tasks are handed to asyncio.gather.
QueryHead(active, n, fault) ==
  IF Len(active) = 0
  THEN [kind |-> "returned", responses |-> <<NoProvidersResponse>>,
        chunks |-> <<>>, error |-> NoneVal]
  ELSE IF n > 0 /\ fault.raises
       THEN [kind |-> "raised", responses |-> <<>>, chunks |-> <<>>,
             error |-> fault.msg]
       ELSE IF Len(QueryChunks(n)) = 0
            THEN [kind |-> "returned", responses |-> <<NoPacketsResponse>>,
                  chunks |-> <<>>, error |-> NoneVal]
            ELSE [kind |-> "gather", responses |-> <<>>,
                  chunks |-> QueryChunks(n), error |-> NoneVal]

\* query_ai / query_ai_async from the call to the first suspension (or to
\* the return when query does not suspend).  query_ai passes no provider
\* name and turns an exception into a dict; query_ai_async narrows the
\* provider list to the named provider when it is in the list.
Call(c) ==
  /\ reg_pc = "ready"
  /\ pc[c] = "idle"
  /\ request[c].calls
  /\ LET name == request[c].name
         selected == IF name = NoneVal THEN <<>>
                     ELSE SelectedByName(active_providers, name)
         swap == Len(selected) > 0
         active == IF swap THEN selected ELSE active_providers
         q == QueryHead(active, request[c].n, request[c].fault)
     IN /\ chunks' = [chunks EXCEPT ![c] = q.chunks]
        /\ task' = [task EXCEPT ![c] =
                      [k \in 1..Len(q.chunks) |-> NewTask(q.chunks[k])]]
        /\ invoked' = [invoked EXCEPT ![c] =
                         [k \in 1..Len(q.chunks) |-> <<>>]]
        /\ \/ /\ q.kind = "returned"
              /\ active_providers' = active_providers
              /\ original' = original
              /\ ret' = [ret EXCEPT ![c] = QueryResultDict(q.responses)]
              /\ pc' = [pc EXCEPT ![c] = "done"]
           \/ /\ q.kind = "raised"
              /\ active_providers' = active
              /\ original' = original
              /\ ret' = [ret EXCEPT ![c] =
                           IF request[c].entry = "query_ai"
                           THEN FaultDict(q.error)
                           ELSE FaultRaised(q.error)]
              /\ pc' = [pc EXCEPT ![c] = "done"]
           \/ /\ q.kind = "gather"
              /\ active_providers' = active
              /\ original' = [original EXCEPT ![c] =
                                IF swap THEN active_providers ELSE <<>>]
              /\ ret' = ret
              /\ pc' = [pc EXCEPT ![c] = "gathering"]
  /\ UNCHANGED <<reg_pc, providers, provider_usage_count,
                 use_weighted_balancing, provider_weights, request,
                 thread, pureVars>>

\* FinalResponses in the order of completion (here: reversed), not of chunks
FinalResponses_Reversed(tasks) ==
  [k \in 1..Len(tasks) |->
     LET t == tasks[Len(tasks) + 1 - k]
     IN IF t.result.kind = "exception"
        THEN AIResponse(FALSE, "", t.result.error, NoneVal, t.chunk_id)
        ELSE t.result.value]

\* the loop of query over the results of gather(return_exceptions=True)
FinalResponses(tasks) ==
  [k \in 1..Len(tasks) |->
     IF tasks[k].result.kind = "exception"
     THEN AIResponse(FALSE, "", tasks[k].result.error, NoneVal,
                     tasks[k].chunk_id)
     ELSE tasks[k].result.value]

\* gather is over: query returns, query_ai_async puts the provider list
\* back if it had narrowed it, combines and returns.
Finish(c) ==
  /\ pc[c] = "gathering"
  /\ \A k \in 1..Len(task[c]) : task[c][k].st = "done"
  /\ active_providers' = IF Len(original[c]) > 0 THEN original[c]
                         ELSE active_providers
  /\ original' = [original EXCEPT ![c] = <<>>]
  /\ ret' = [ret EXCEPT ![c] = QueryResultDict(FinalResponses(task[c]))]
  /\ pc' = [pc EXCEPT ![c] = "done"]
  /\ UNCHANGED <<reg_pc, providers, provider_usage_count,
                 use_weighted_balancing, provider_weights, request,
                 chunks, task, invoked, thread, pureVars>>

\* ------------------------------------------------------- specification
RegistryConfigs ==
  {[weighted |-> TRUE, weights |-> DefaultWeights],
   [weighted |-> TRUE, weights |-> ZeroGroqWeights],
   [weighted |-> FALSE, weights |-> DefaultWeights]}

InitRegistry(configured) ==
  /\ reg_pc = "boot"
  /\ providers \in {<<>>, configured}
  /\ active_providers = <<>>
  /\ provider_usage_count = <<>>
  /\ \E cfg \in RegistryConfigs :
       /\ use_weighted_balancing = cfg.weighted
       /\ provider_weights = cfg.weights

InitCalls(requests) ==
  /\ pc = [c \in Callers |-> "idle"]
  /\ request \in requests
  /\ original = [c \in Callers |-> <<>>]
  /\ chunks = [c \in Callers |-> <<>>]
  /\ task = [c \in Callers |-> <<>>]
  /\ ret = [c \in Callers |-> [kind |-> "none"]]
  /\ invoked = [c \in Callers |-> <<>>]
  /\ thread = [c \in Callers |-> IdleThread]
  /\ pin = <<>>
  /\ pout = [done |-> FALSE]

\* One caller, one call of at most one chunk, over a registry configured
\* with all four providers.
SingleCall ==
  {[c \in Callers |-> IF c = 1 THEN r ELSE NoRequest] :
     r \in Requests({PacketsFor(0), PacketsFor(1)})}

Init == InitRegistry(AllProviders) /\ InitCalls(SingleCall)

Next ==
  \/ Construct
  \/ \E c \in Callers : Call(c)
  \/ \E c \in Callers : \E i \in 1..Len(task[c]) : TaskStart(c, i)
  \/ \E c \in Callers : \E i \in 1..Len(task[c]) : TaskResume(c, i)
  \/ \E c \in Callers : Finish(c)

Spec == Init /\ [][Next]_vars

\* One caller, one call that query cuts in MaxChunks chunks, over a registry
\* configured with the first FanOutBackends providers.
FanOutCall ==
  {[c \in Callers |-> IF c = 1 THEN r ELSE NoRequest] :
     r \in Requests({PacketsFor(MaxChunks)})}

InitFanOut ==
  InitRegistry(SubSeq(AllProviders, 1, FanOutBackends)) /\ InitCalls(FanOutCall)

SpecFanOut == InitFanOut /\ [][Next]_vars

\* Every caller calls query_ai_async on the shared registry, each with one
\* chunk and with or without a provider name; the calls may overlap.
OverlapCalls ==
  [Callers ->
     {r \in Requests({PacketsFor(1)}) :
        /\ r.entry = "query_ai_async"
        /\ ~r.fault.raises
        /\ r.name \in Range(SubSeq(AllProviders, 1, FanOutBackends))
                        \cup {NoneVal}}]

InitOverlap ==
  InitRegistry(SubSeq(AllProviders, 1, FanOutBackends))
    /\ InitCalls(OverlapCalls)

SpecOverlap == InitOverlap /\ [][Next]_vars

\* ----------------------------------------------------------- properties
\* the backends that passed the health check at startup
\* ------------------------------------------------------- chunk digest
\* What _extract_chunk_statistics reads of a record to tally protocols:
\* whether it has an IP layer and, if so, its IP protocol number (6 TCP,
\* 17 UDP, 1 ICMP, anything else); "no_ip" is a record without IP layer
\* (ARP, IPv6, a bare Ethernet frame).
RecordKinds == {"tcp", "udp", "icmp", "other_ip", "no_ip"}

\* the key of stats["protocols"] a record with an IP layer is counted under
ProtocolKey(kind) ==
  CASE kind = "tcp" -> "TCP"
    [] kind = "udp" -> "UDP"
    [] kind = "icmp" -> "ICMP"
    [] kind = "other_ip" -> "Other"

\* stats["protocols"] after the loop over the records: a dict from protocol
\* name to count, holding only the names that were met
RECURSIVE ProtocolTally(_)
ProtocolTally(packets) ==
  IF Len(packets) = 0 THEN <<>>
  ELSE LET before == ProtocolTally(SubSeq(packets, 1, Len(packets) - 1))
           pkt == packets[Len(packets)]
       IN IF pkt = "no_ip" THEN before
          ELSE Put(before, ProtocolKey(pkt),
                   Get(before, ProtocolKey(pkt), 0) + 1)

\* the chunks of chunk_packets with their digest's protocol tally
DigestChunks(packets, size_bytes, max_packets) ==
  LET slices == ChunkSlices(Len(packets), size_bytes, max_packets)
  IN [k \in 1..Len(slices) |->
        LET chunk == SubSeq(packets, slices[k].start_idx + 1,
                            slices[k].end_idx)
        IN [packets |-> chunk,
            packet_count |-> Len(chunk),
            total_packets |-> Len(chunk),
            protocols |-> ProtocolTally(chunk)]]

InitDigest ==
  /\ InitIdleRegistry
  /\ InitIdleCallers
  /\ pin \in [packets : UNION {[1..n -> RecordKinds] :
                                  n \in 0..MaxDigestRecords},
               max_packets : 1..MaxDigestRecords]
  /\ pout = [done |-> FALSE, chunks |-> <<>>]

Digest ==
  /\ ~pout.done
  /\ pout' = [done |-> TRUE,
              chunks |-> DigestChunks(pin.packets,
                                      DefaultChunkSizeMB * BytesPerMB,
                                      pin.max_packets)]
  /\ UNCHANGED <<regVars, callVars, pin>>

NextDigest == Digest

SpecDigest == InitDigest /\ [][NextDigest]_vars

TallySum(chunk) == SumOver(chunk.protocols, DOMAIN chunk.protocols)

\* C25: for every chunk produced by chunk_packets, whatever records it
\* holds (records without IP layer included), the digest's per-protocol
\* tally sums to the chunk's record count.
C25_TallySumsToCount ==
  pout.done =>
    \A k \in 1..Len(pout.chunks) :
      TallySum(pout.chunks[k]) = pout.chunks[k].packet_count

\* the tally sums to the number of the chunk's records that have an IP
\* layer, and the digest's total_packets is the chunk's record count
C25_TallyCountsIPRecords ==
  pout.done =>
    \A k \in 1..Len(pout.chunks) :
      LET chunk == pout.chunks[k]
      IN /\ TallySum(chunk) =
              Cardinality({j \in 1..Len(chunk.packets) :
                             chunk.packets[j] # "no_ip"})
         /\ chunk.total_packets = chunk.packet_count

\* ------------------------------------------------ construction alone
\* MultiAgentAI() for any set of configured providers (_initialize_providers
\* appends them in a fixed order) and any answers of the health checks,
\* which `pin` holds.
Configured(S) == SelectSeq(AllProviders, LAMBDA n : n \in S)

InitConstruct ==
  /\ reg_pc = "boot"
  /\ providers \in {Configured(S) : S \in SUBSET Names}
  /\ active_providers = <<>>
  /\ provider_usage_count = <<>>
  /\ \E cfg \in RegistryConfigs :
       /\ use_weighted_balancing = cfg.weighted
       /\ provider_weights = cfg.weights
  /\ InitIdleCallers
  /\ pin \in [health : [Range(providers) -> HealthOutcomes]]
  /\ pout = [done |-> FALSE]

ConstructProbed == ConstructWith(pin.health)

NextConstruct == ConstructProbed

SpecConstruct == InitConstruct /\ [][NextConstruct]_vars

\* C26: after construction the healthy list holds exactly the configured
\* backends whose health check returned true, each once (a check that
\* returns false or raises leaves the backend out and does not abort), and
\* the usage mapping has an entry of zero for exactly those backends.
C26_HealthyAreThePassing ==
  LET passed == {n \in Range(providers) : pin.health[n] = "ok"}
  IN /\ reg_pc = "ready" =>
          /\ Range(active_providers) = passed
          /\ Len(active_providers) = Cardinality(passed)
          /\ DOMAIN provider_usage_count = passed
          /\ \A n \in passed : provider_usage_count[n] = 0
     /\ (reg_pc = "failed" => providers = <<>>)

\* four configured backends: one check raised, one returned false, two
\* passed
C26_Witness ==
  /\ reg_pc = "ready"
  /\ Len(providers) = 4
  /\ pin.health["Groq"] = "raise"
  /\ pin.health["OpenAI"] = "down"
  /\ active_providers = <<"Google Gemini", "Anthropic">>

\* ------------------------------------------------- one selection
\* One call of _select_provider(chunk, exclude) on a registry in use: any
\* healthy list in any order, any usage counts up to MaxUsage (override
\* calls can bring any backend to any count), an exclusion set as a chunk's
\* `tried` set can be (fewer than MaxCascade names).
InitSelect ==
  /\ reg_pc = "ready"
  /\ providers = AllProviders
  /\ \E S \in (SUBSET Names) \ {{}} :
       /\ active_providers \in Perms(S)
       /\ provider_usage_count \in [S -> 0..MaxUsage]
       /\ pin \in [exclude : {E \in SUBSET S : Cardinality(E) < MaxCascade}]
  /\ \E cfg \in RegistryConfigs :
       /\ use_weighted_balancing = cfg.weighted
       /\ provider_weights = cfg.weights
  /\ InitIdleCallers
  /\ pout = [done |-> FALSE]

SelectOnce ==
  /\ ~pout.done
  /\ \E sel \in SelectProvider(active_providers, provider_usage_count,
                                use_weighted_balancing, provider_weights,
                                pin.exclude) :
       /\ active_providers' = sel.active
       /\ provider_usage_count' = sel.usage
       /\ pout' = [done |-> TRUE, kind |-> sel.kind,
                   selected |-> sel.provider,
                   candidates |-> Candidates(active_providers, pin.exclude),
                   usage |-> provider_usage_count,
                   active |-> active_providers]
  /\ UNCHANGED <<reg_pc, providers, use_weighted_balancing, provider_weights,
                 callVars, pin>>

NextSelect == SelectOnce

SpecSelect == InitSelect /\ [][NextSelect]_vars

\* a selection made in weighted mode on non-zero total usage
ScoredSelection ==
  /\ pout.done
  /\ pout.kind = "provider"
  /\ use_weighted_balancing
  /\ TotalQueries(pout.usage) > 0

\* 100 * total * (targetPercent - actualPercent) of n before the selection
DeficitBefore(n) ==
  Deficit100(provider_weights, pout.usage, TotalQueries(pout.usage), n)

\* C19: in weighted mode with non-zero total usage, select returns a
\* candidate whose deficit (targetPercent - actualPercent) is maximal among
\* the non-excluded candidates; no candidate of strictly smaller deficit
\* ever wins.
C19_MostUnderusedWins ==
  ScoredSelection =>
    \A k \in 1..Len(pout.candidates) :
      DeficitBefore(pout.selected) >= DeficitBefore(pout.candidates[k])

\* C20: in weighted mode with non-zero total usage, the selected candidate's
\* deficit is never more than 5 percentage points below the largest deficit
\* among the non-excluded candidates.
C20_JitterIsBounded ==
  ScoredSelection =>
    /\ \E k \in 1..Len(pout.candidates) : pout.candidates[k] = pout.selected
    /\ pout.selected \notin pin.exclude
    /\ \A k \in 1..Len(pout.candidates) :
         DeficitBefore(pout.selected) + 5 * TotalQueries(pout.usage)
           >= DeficitBefore(pout.candidates[k])

\* a selection with exclusions under the default weights that the jitter
\* decided: the winner's
\* deficit is below another candidate's, by less than 5 points
C20_Witness ==
  /\ ScoredSelection
  /\ provider_weights = DefaultWeights
  /\ pin.exclude # {}
  /\ \E k \in 1..Len(pout.candidates) :
       /\ DeficitBefore(pout.candidates[k]) > DeficitBefore(pout.selected)
       /\ DeficitBefore(pout.candidates[k])
            < DeficitBefore(pout.selected) + 5 * TotalQueries(pout.usage)

\* C21: a select call that returns backend b increases usage[b] by exactly
\* 1 and leaves every other counter unchanged, under both policies, with
\* or without exclusions; a select call that returns none (or raises)
\* changes no counter; no counter ever decreases.
C21_SelectCountsOnce ==
  pout.done =>
    /\ DOMAIN provider_usage_count = DOMAIN pout.usage
    /\ \A n \in DOMAIN pout.usage :
         provider_usage_count[n] =
           IF pout.kind = "provider" /\ n = pout.selected
           THEN pout.usage[n] + 1
           ELSE pout.usage[n]
    /\ pout.kind = "provider" => pout.selected \in DOMAIN pout.usage

\* a round-robin selection under exclusions that returned a backend
C21_Witness ==
  /\ pout.done
  /\ pout.kind = "provider"
  /\ ~use_weighted_balancing
  /\ pin.exclude # {}
  /\ pout.usage[pout.selected] = MaxUsage
  /\ provider_usage_count[pout.selected] = MaxUsage + 1

\* a selection that returned no backend: every healthy backend excluded
C21_WitnessNone ==
  /\ pout.done
  /\ pout.kind = "none"
  /\ TotalQueries(provider_usage_count) > 0

\* b is a permutation of a: the same names, none dropped, none duplicated
IsPermutation(a, b) ==
  /\ Len(a) = Len(b)
  /\ Range(a) = Range(b)
  /\ Cardinality(Range(b)) = Len(b)

\* C22 (one select): with weighting disabled, select returns the first
\* backend of the current ordering that is not excluded; without exclusions
\* the chosen backend (the head) is moved to the end of the ordering; with
\* a non-empty exclusion set the ordering is left unchanged.
C22_RoundRobinStep ==
  (pout.done /\ ~use_weighted_balancing) =>
    /\ pout.kind \in {"provider", "none"}
    /\ pout.kind = "none" <=> Range(pout.active) \subseteq pin.exclude
    /\ pout.kind = "provider" =>
         \E k \in 1..Len(pout.active) :
           /\ pout.active[k] = pout.selected
           /\ pout.selected \notin pin.exclude
           /\ \A j \in 1..(k - 1) : pout.active[j] \in pin.exclude
    /\ (pout.kind = "provider" /\ pin.exclude = {}) =>
         /\ pout.selected = Head(pout.active)
         /\ active_providers = Tail(pout.active) \o <<pout.selected>>
    /\ (pout.kind = "none" \/ pin.exclude # {}) =>
         active_providers = pout.active

\* ---------------------------------------------- round-robin in a row
\* _select_provider called again and again with weighting disabled, with
\* or without exclusions; `picks` lists the backends returned by the calls
\* made without exclusions, `initial` is the ordering before the first call.
InitRotate ==
  /\ reg_pc = "ready"
  /\ providers = AllProviders
  /\ \E S \in (SUBSET Names) \ {{}} :
       /\ active_providers \in Perms(S)
       /\ provider_usage_count = [n \in S |-> 0]
  /\ use_weighted_balancing = FALSE
  /\ provider_weights = DefaultWeights
  /\ InitIdleCallers
  /\ pin = [initial |-> active_providers]
  /\ pout = [picks |-> <<>>]

SelectInTurn ==
  /\ TotalQueries(provider_usage_count) < MaxRotations
  /\ \E exclude \in {E \in SUBSET Range(active_providers) :
                        Cardinality(E) < MaxCascade} :
       \E sel \in SelectProvider(active_providers, provider_usage_count,
                                  use_weighted_balancing, provider_weights,
                                  exclude) :
         /\ sel.kind = "provider"
         /\ active_providers' = sel.active
         /\ provider_usage_count' = sel.usage
         /\ pout' = [picks |-> IF exclude = {}
                               THEN Append(pout.picks, sel.provider)
                               ELSE pout.picks]
  /\ UNCHANGED <<reg_pc, providers, use_weighted_balancing, provider_weights,
                 callVars, pin>>

NextRotate == SelectInTurn

SpecRotate == InitRotate /\ [][NextRotate]_vars

\* C22 (in a row): with weighting disabled the selects made without
\* exclusions return the healthy backends in cyclic order, starting with
\* the head of the startup ordering, whatever selects with exclusions come
\* in between: any n consecutive ones over n healthy backends return each
\* backend exactly once.
C22_RoundRobinCycle ==
  LET n == Len(pin.initial)
  IN /\ \A k \in 1..Len(pout.picks) :
          pout.picks[k] = pin.initial[((k - 1) % n) + 1]
     /\ \A k \in 1..Len(pout.picks) :
          k + n - 1 <= Len(pout.picks) =>
            {pout.picks[j] : j \in k..(k + n - 1)} = Range(pin.initial)
     /\ IsPermutation(pin.initial, active_providers)

\* four healthy backends, more than one full turn of selects without
\* exclusions, with a select under exclusions in between
C22_Witness ==
  /\ Len(pin.initial) = 4
  /\ Len(pout.picks) = 5
  /\ TotalQueries(provider_usage_count) = MaxRotations
  /\ pout.picks[5] = pout.picks[1]

\* ------------------------------------------- callers on their own threads
\* The registry `multi_agent` is one module-level object; every UI session
\* runs on its own thread and drives its own event loop (query_ai makes a
\* new loop per call), so the _select_provider calls of different callers
\* run on different threads, without a lock.  Between threads the statement
\*   provider_usage_count[name] = provider_usage_count.get(name, 0) + 1
\* is a read (the call of get) followed by a store, and the interpreter may
\* switch threads between the two.  Each caller thread runs the failover
\* loop of query_single_chunk for one chunk.
InitThreads ==
  /\ reg_pc = "ready"
  /\ providers = AllProviders
  /\ \E S \in (SUBSET Names) \ {{}} :
       /\ active_providers \in Perms(S)
       /\ provider_usage_count = [n \in S |-> 0]
  /\ \E cfg \in RegistryConfigs :
       /\ use_weighted_balancing = cfg.weighted
       /\ provider_weights = cfg.weights
  /\ pc = [c \in Callers |-> "idle"]
  /\ request = [c \in Callers |-> NoRequest]
  /\ original = [c \in Callers |-> <<>>]
  /\ chunks = [c \in Callers |-> <<>>]
  /\ task = [c \in Callers |-> <<>>]
  /\ ret = [c \in Callers |-> [kind |-> "none"]]
  /\ invoked = [c \in Callers |-> <<>>]
  /\ thread = [c \in Callers |-> IdleThread]
  /\ pin = <<>>
  /\ pout = [done |-> FALSE]

\* query_single_chunk up to its loop: max_attempts is read from the list
ThreadBegin(c) ==
  /\ thread[c].pc = "idle"
  /\ thread' = [thread EXCEPT ![c] =
                  [@ EXCEPT !.pc = "select",
                            !.max_attempts =
                               Min(Len(active_providers), MaxCascade)]]
  /\ UNCHANGED <<regVars, pc, request, original, chunks, task, ret, invoked,
                 pureVars>>

\* _select_provider(chunk, exclude=tried) up to and including the read
\* provider_usage_count.get(provider.name, 0); the loop ends when the
\* attempts are used up, no candidate is left or random.choices raises.
ThreadSelect(c) ==
  /\ thread[c].pc = "select"
  /\ IF thread[c].attempt >= thread[c].max_attempts
     THEN /\ thread' = [thread EXCEPT ![c].pc = "done"]
          /\ UNCHANGED active_providers
     ELSE \E sel \in SelectProvider(active_providers, provider_usage_count,
                                    use_weighted_balancing, provider_weights,
                                    thread[c].tried) :
            /\ active_providers' = sel.active
            /\ thread' = [thread EXCEPT ![c] =
                            IF sel.kind = "provider"
                            THEN [@ EXCEPT
                                    !.pc = "store",
                                    !.provider = sel.provider,
                                    !.read = Get(provider_usage_count,
                                                 sel.provider, 0),
                                    !.attempt = @ + 1]
                            ELSE [@ EXCEPT !.pc = "done"]]
  /\ UNCHANGED <<reg_pc, providers, provider_usage_count,
                 use_weighted_balancing, provider_weights, pc, request,
                 original, chunks, task, ret, invoked, pureVars>>

\* the store provider_usage_count[provider.name] = <value read> + 1 and the
\* return of the provider, up to the await of provider.query
ThreadStore(c) ==
  /\ thread[c].pc = "store"
  /\ provider_usage_count' =
       Put(provider_usage_count, thread[c].provider, thread[c].read + 1)
  /\ thread' = [thread EXCEPT ![c] =
                  [@ EXCEPT !.pc = "query", !.returned = @ + 1]]
  /\ UNCHANGED <<reg_pc, providers, active_providers,
                 use_weighted_balancing, provider_weights, pc, request,
                 original, chunks, task, ret, invoked, pureVars>>

\* the answer of provider.query: a success ends the loop, a failure adds
\* the provider to `tried` and goes round the loop
ThreadAnswer(c) ==
  /\ thread[c].pc = "query"
  /\ \E outcome \in QueryOutcomes :
       LET response == ReceivedResponse(thread[c].provider, outcome,
                                        NoChunkId)
       IN thread' = [thread EXCEPT ![c] =
                       IF response.success /\ response.response # ""
                       THEN [@ EXCEPT !.pc = "done"]
                       ELSE [@ EXCEPT !.pc = "select",
                                      !.tried = @ \cup {thread[c].provider}]]
  /\ UNCHANGED <<regVars, pc, request, original, chunks, task, ret, invoked,
                 pureVars>>

NextThreads ==
  \/ \E c \in Callers : ThreadBegin(c)
  \/ \E c \in Callers : ThreadSelect(c)
  \/ \E c \in Callers : ThreadStore(c)
  \/ \E c \in Callers : ThreadAnswer(c)

SpecThreads == InitThreads /\ [][NextThreads]_vars

\* the number of _select_provider calls that returned a backend
RECURSIVE ReturnedBy(_)
ReturnedBy(C) ==
  IF C = {} THEN 0
  ELSE LET c == CHOOSE x \in C : TRUE
       IN thread[c].returned + ReturnedBy(C \ {c})

\* C15: no increment of a usage counter is lost: once every caller's
\* selections have completed, the usage counters add up to the number of
\* _select_provider calls that returned a backend.
C15_NoIncrementLost ==
  (\A c \in Callers : thread[c].pc = "done") =>
    TotalQueries(provider_usage_count) = ReturnedBy(Callers)

\* the selections made on one event loop (the chunk tasks of one call and
\* the calls that overlap on that loop)
RECURSIVE SelectionsOf(_)
SelectionsOf(T) ==
  IF T = {} THEN 0
  ELSE LET t == CHOOSE x \in T : TRUE
       IN task[t[1]][t[2]].attempt + SelectionsOf(T \ {t})

Healthy == DOMAIN provider_usage_count

\* the text the attempt log gives for an outcome that is not a success
LoggedText(outcome) ==
  CASE outcome = "http" -> HttpError
    [] outcome = "raise" -> RaisedError
    [] outcome \in {"exc", "ok_empty"} -> "Unknown error"

LoggedEntry(inv) == inv.provider \o ": " \o LoggedText(inv.outcome)

Tasks == {<<c, i>> \in Callers \X (1..MaxChunks) : i <= Len(task[c])}

\* on one event loop (no await inside _select_provider) the usage counters
\* always add up to the selections that returned a backend
C15_LoopKeepsCount ==
  reg_pc = "ready" => TotalQueries(provider_usage_count) = SelectionsOf(Tasks)

\* C16: after startup no operation changes the list of healthy backends;
\* the usage-count mapping is the only registry state that is mutated.
C16_HealthyListReadOnly ==
  [][reg_pc = "ready" =>
       /\ active_providers' = active_providers
       /\ providers' = providers
       /\ use_weighted_balancing' = use_weighted_balancing
       /\ provider_weights' = provider_weights]_vars

\* the rest of the registry (configured list, policy, weights) is never
\* written after startup, and the healthy list never gains a backend
C16_OnlyListAndCountsChange ==
  [][reg_pc = "ready" =>
       /\ providers' = providers
       /\ use_weighted_balancing' = use_weighted_balancing
       /\ provider_weights' = provider_weights
       /\ Range(active_providers') \subseteq Healthy
       /\ DOMAIN provider_usage_count' = Healthy]_vars

\* every call made on a registry without a healthy backend has returned a
\* failed result
EmptyRegistryFailsFast ==
  (reg_pc = "ready" /\ Healthy = {}) =>
    /\ active_providers = <<>>
    /\ \A c \in Callers :
         /\ pc[c] # "gathering"
         /\ pc[c] = "done" => (ret[c].kind = "dict" /\ ~ret[c].success)

\* C17: when no configured backend passes its health check, the case of no
\* configured backend included, construction completes (it does not raise)
\* with an empty healthy list, and every later query fails fast with a
\* failed result.
C17_ConstructionNeverRaises ==
  /\ reg_pc # "failed"
  /\ EmptyRegistryFailsFast

\* with at least one backend configured, construction completes, and on an
\* empty healthy list every query fails fast
C17_HoldsWhenConfigured ==
  /\ (providers # <<>> => reg_pc # "failed")
  /\ (providers = <<>> => reg_pc # "ready")
  /\ EmptyRegistryFailsFast

\* the backends query_single_chunk has invoked for a task, answered or not
InFlight(t) == IF t.st = "awaiting" THEN 1 ELSE 0

\* C18: for any chunk, query_single_chunk makes at most min(healthyCount, 3)
\* backend invocations, never invokes a backend twice, selects each attempt
\* among the backends not yet tried, makes no attempt after a success, and
\* has at most one query in flight (an attempt starts only after the
\* previous one was answered).
C18_BoundedDistinctSequential ==
  \A ci \in Tasks :
    LET t == task[ci[1]][ci[2]]
        inv == invoked[ci[1]][ci[2]]
    IN /\ Len(inv) + InFlight(t) <= Min(Cardinality(Healthy), MaxCascade)
       /\ t.attempt = Len(inv) + InFlight(t)
       /\ \A a, b \in 1..Len(inv) :
            a # b => inv[a].provider # inv[b].provider
       /\ t.tried \subseteq {inv[a].provider : a \in 1..Len(inv)}
       /\ t.st = "awaiting" =>
            /\ t.provider \in Healthy
            /\ t.provider \notin t.tried
            /\ \A a \in 1..Len(inv) :
                 /\ inv[a].provider # t.provider
                 /\ inv[a].outcome # "ok"
                 /\ inv[a].provider \in t.tried
       /\ \A a \in 1..Len(inv) :
            inv[a].outcome = "ok" => (a = Len(inv) /\ t.st = "done")

\* a chunk that failed on three different backends of four healthy ones
C18_Witness ==
  \E ci \in Tasks :
    /\ task[ci[1]][ci[2]].st = "done"
    /\ Len(invoked[ci[1]][ci[2]]) = MaxCascade
    /\ Cardinality(Healthy) = 4
    /\ \A a \in 1..MaxCascade : invoked[ci[1]][ci[2]][a].outcome # "ok"

\* the attempts the tasks in T have dispatched to backend b
RECURSIVE DispatchedTo(_, _)
DispatchedTo(T, b) ==
  IF T = {} THEN 0
  ELSE LET ci == CHOOSE x \in T : TRUE
           t == task[ci[1]][ci[2]]
           inv == invoked[ci[1]][ci[2]]
       IN Cardinality({a \in 1..Len(inv) : inv[a].provider = b})
            + (IF t.st = "awaiting" /\ t.provider = b THEN 1 ELSE 0)
            + DispatchedTo(T \ {ci}, b)

\* on one event loop usage[b] is the number of attempts dispatched to b
C21_UsageEqualsDispatched ==
  \A b \in Healthy : provider_usage_count[b] = DispatchedTo(Tasks, b)

\* no usage counter ever decreases
C21_CountersNeverDecrease ==
  [][\A b \in Healthy :
       b \in DOMAIN provider_usage_count'
         /\ provider_usage_count'[b] >= provider_usage_count[b]]_vars

\* a step of a chunk task: query_single_chunk running a select
SelectStep == pc' = pc /\ task' # task

\* C23: the select calls of the chunk tasks of one request, whatever the
\* policy and the exclusion sets, keep the healthy list a permutation of
\* what it was (no backend dropped or duplicated); in weighted mode they
\* leave its order unchanged as well.
C23_SelectsPermuteList ==
  [][SelectStep =>
       /\ IsPermutation(active_providers, active_providers')
       /\ use_weighted_balancing => active_providers' = active_providers]_vars

\* the list is at all times made of healthy backends, each at most once
C23_ListWithoutDuplicates ==
  /\ Cardinality(Range(active_providers)) = Len(active_providers)
  /\ Range(active_providers) \subseteq Healthy

\* a round-robin request without override whose two chunk tasks each went
\* through two selects, interleaved
C23_Witness ==
  \E c \in Callers :
    /\ ~use_weighted_balancing
    /\ request[c].name = NoneVal
    /\ pc[c] = "gathering"
    /\ Len(task[c]) >= 2
    /\ \A i \in 1..Len(task[c]) :
         task[c][i].st = "awaiting" /\ task[c][i].attempt = 2

\* an outcome that carries neither a text nor an error text
Blank(outcome) == outcome \in {"ok_empty", "exc"}

\* C27: a backend result flagged success with an empty text is treated by
\* query_single_chunk as a failure: it is logged as "name: Unknown error",
\* the backend joins the tried set and the loop goes on to an untried
\* backend; a failed result with an empty error is logged the same way.  No
\* result that query_single_chunk returns is a success with empty text or
\* a failure with empty error.
C27_BlankResultsAreFailures ==
  \A ci \in Tasks :
    LET t == task[ci[1]][ci[2]]
        inv == invoked[ci[1]][ci[2]]
    IN /\ \A k \in 1..Len(inv) :
            Blank(inv[k].outcome) =>
              /\ Len(t.errors) >= k
              /\ t.errors[k] = inv[k].provider \o ": Unknown error"
              /\ inv[k].provider \in t.tried
              /\ k = Len(inv) =>
                   \/ /\ t.st = "awaiting"
                      /\ t.provider \notin t.tried
                   \/ /\ t.st = "done"
                      /\ Len(inv) = t.max_attempts
                      /\ t.result.kind = "response"
                      /\ ~t.result.value.success
       /\ t.result.kind = "response" =>
            /\ t.result.value.success => t.result.value.response # ""
            /\ ~t.result.value.success =>
                 t.result.value.error \notin {NoneVal, ""}

\* a chunk whose first backend answered success with an empty text, whose
\* second failed with an empty error and whose third answered
C27_Witness ==
  \E ci \in Tasks :
    LET t == task[ci[1]][ci[2]]
        inv == invoked[ci[1]][ci[2]]
    IN /\ Len(inv) = 3
       /\ inv[1].outcome = "ok_empty"
       /\ inv[2].outcome = "exc"
       /\ inv[3].outcome = "ok"
       /\ t.st = "done"
       /\ t.result.value.success
       /\ Len(t.errors) = 2

\* a chunk whose only backend answered success with an empty text
C27_WitnessExhausted ==
  \E ci \in Tasks :
    LET t == task[ci[1]][ci[2]]
        inv == invoked[ci[1]][ci[2]]
    IN /\ Len(inv) = 1
       /\ inv[1].outcome = "ok_empty"
       /\ t.st = "done"
       /\ t.result.value.error = inv[1].provider \o ": Unknown error"

\* C1: when the first two backends selected for a chunk fail and the third
\* answers with a non-empty text, query_single_chunk returns that answer,
\* under the third backend's name and the chunk's id, and the attempt log
\* then holds exactly the two failures, "name: error", in attempt order.
C1_Failover ==
  \A ci \in Tasks :
    LET c == ci[1]
        i == ci[2]
        t == task[c][i]
        inv == invoked[c][i]
    IN (/\ Len(inv) = 3
        /\ inv[1].outcome # "ok" /\ inv[2].outcome # "ok"
        /\ inv[3].outcome = "ok") =>
         /\ t.st = "done"
         /\ t.result.kind = "response"
         /\ t.result.value.success
         /\ t.result.value.response = "Analysis by " \o inv[3].provider
         /\ t.result.value.provider = inv[3].provider
         /\ t.result.value.chunk_id = chunks[c][i].chunk_id
         /\ t.errors = <<LoggedEntry(inv[1]), LoggedEntry(inv[2])>>
         /\ Cardinality({inv[k].provider : k \in 1..3}) = 3

C1_Witness ==
  \E ci \in Tasks :
    LET inv == invoked[ci[1]][ci[2]]
    IN /\ Len(inv) = 3
       /\ inv[1].outcome = "http" /\ inv[2].outcome = "exc"
       /\ inv[3].outcome = "ok"
       /\ Cardinality(Healthy) = 3
       /\ pc[ci[1]] = "done"
       /\ ret[ci[1]].success

C5_NoBackendsFailFast ==
  \A c \in Callers :
    (reg_pc = "ready" /\ Len(active_providers) = 0) =>
      /\ pc[c] # "gathering"
      /\ pc[c] = "done" =>
           /\ ret[c].kind = "dict"
           /\ ~ret[c].success
           /\ "provider_responses" \in DOMAIN ret[c]
           /\ ret[c].provider_responses =
                <<AIResponse(FALSE, "", "No active AI providers available",
                             NoneVal, NoChunkId)>>
           /\ chunks[c] = <<>>
           /\ task[c] = <<>>
           /\ invoked[c] = <<>>
           /\ \A n \in DOMAIN provider_usage_count :
                provider_usage_count[n] = 0

\* a call through query_ai_async with records that cannot be partitioned,
\* made on an empty registry
C5_Witness ==
  \E c \in Callers :
    /\ reg_pc = "ready"
    /\ providers # <<>>
    /\ Len(active_providers) = 0
    /\ pc[c] = "done"
    /\ request[c].fault.raises
    /\ request[c].entry = "query_ai_async"
    /\ ret[c].kind = "dict"

\* C6: query_ai never lets a fault escape: whatever fails inside, it returns
\* a dict with a success flag, and a failed one has a non-empty error.
C6_FaultsBecomeErrors ==
  \A c \in Callers :
    (pc[c] = "done" /\ request[c].entry = "query_ai") =>
      /\ ret[c].kind = "dict"
      /\ ~ret[c].success => ret[c].error \notin {NoneVal, ""}

\* every AIResponse the adapters have produced, those query_single_chunk has
\* returned, and those query has returned
ProducedResponses ==
  {AdapterResponse(inv.provider, inv.outcome) :
     inv \in {x \in UNION {Range(invoked[ci[1]][ci[2]]) : ci \in Tasks} :
                x.outcome # "raise"}}
  \cup {task[ci[1]][ci[2]].result.value :
          ci \in {x \in Tasks : task[x[1]][x[2]].result.kind = "response"}}
  \cup UNION {Range(ret[c].provider_responses) :
                c \in {x \in Callers : /\ ret[x].kind = "dict"
                                       /\ "provider_responses"
                                            \in DOMAIN ret[x]}}

WellFormed(r) ==
  /\ r.success => r.response # ""
  /\ ~r.success => r.error \notin {NoneVal, ""}

\* C9: every AIResponse produced in the pipeline (by an adapter, by
\* query_single_chunk, by query) has a non-empty text when it is a success
\* and a non-empty error when it is a failure.
C9_ResultsWellFormed == \A r \in ProducedResponses : WellFormed(r)

\* the same without the adapters: holds
C9_OrchestratorResultsWellFormed ==
  /\ \A ci \in Tasks :
       task[ci[1]][ci[2]].result.kind = "response" =>
         WellFormed(task[ci[1]][ci[2]].result.value)
  /\ \A c \in Callers :
       (ret[c].kind = "dict" /\ "provider_responses" \in DOMAIN ret[c]) =>
         \A r \in Range(ret[c].provider_responses) : WellFormed(r)

\* C7 (first half): a call whose provider name matched a healthy backend
\* sends every backend invocation of every chunk to that backend only.
OverrideMatched(c) == pc[c] # "idle" /\ Len(original[c]) > 0

InvokedBy(c) ==
  UNION {{invoked[c][i][k].provider : k \in 1..Len(invoked[c][i])}
           \cup ({task[c][i].provider} \ {NoneVal}) :
         i \in 1..Len(task[c])}

\* C7: with a provider name that matches a healthy backend, every backend
\* invocation of the call goes to that backend; without a name, or with one
\* that matches no healthy backend, the call selects among all healthy
\* backends.
C7_OverrideConstrainsCall ==
  \A c \in Callers :
    /\ OverrideMatched(c) => InvokedBy(c) \subseteq {request[c].name}
    /\ (/\ pc[c] = "gathering"
        /\ request[c].name \notin Healthy
        /\ \E i \in 1..Len(task[c]) : task[c][i].st = "pending") =>
         Range(active_providers) = Healthy

\* the healthy list holds every healthy backend again
ListIsWhole ==
  /\ Range(active_providers) = Healthy
  /\ Len(active_providers) = Cardinality(Healthy)

\* C28: when query_ai_async is called with a matching override and
\* partitioning or dispatch raises inside the call, the healthy list is
\* nevertheless restored to what it was before the call.
C28_ListRestoredAfterRaise ==
  \A c \in Callers :
    (/\ pc[c] = "done"
     /\ ret[c].kind = "raised"
     /\ request[c].name \in Healthy) => ListIsWhole

\* after a call that returned, with or without override, the list is whole
C28_ListRestoredAfterReturn ==
  \A c \in Callers :
    (pc[c] = "done" /\ ret[c].kind = "dict" /\ ~request[c].fault.raises) =>
      ListIsWhole

\* C29: an override affects only its own call: a call made without an
\* override, or with another override, is never restricted to another
\* call's override backend, and once all overlapping calls have returned
\* the healthy list is what it was before the first of them started.
C29_OverrideIsLocal ==
  /\ \A c \in Callers :
       \A i \in 1..Len(task[c]) :
         task[c][i].st # "pending" =>
           /\ request[c].name \notin Healthy =>
                task[c][i].max_attempts =
                  Min(Cardinality(Healthy), MaxCascade)
           /\ request[c].name \in Healthy =>
                InvokedBy(c) \subseteq {request[c].name}
  /\ (\A c \in Callers : pc[c] = "done") => ListIsWhole

\* every call has returned and the list is left narrowed to one backend
C29_LeftNarrowed ==
  /\ Cardinality(Healthy) = 2
  /\ \A c \in Callers : pc[c] = "done" /\ ret[c].kind = "dict"
  /\ Len(active_providers) = 1

\* a call without override ran against another call's override backend only
C29_RestrictedByOther ==
  \E c \in Callers :
    /\ request[c].name = NoneVal
    /\ Cardinality(Healthy) = 2
    /\ pc[c] = "done"
    /\ task[c][1].max_attempts = 1

\* C8: query returns only after every chunk task has finished, with one
\* result per chunk, result i carrying the id of chunk i; a task that
\* raised gives a failed result for its own chunk, every other result is
\* what its own task returned, and no unfinished task is ever left without
\* a next step while the gather is pending.
C8_ChunkIndependence ==
  \A c \in Callers :
    /\ pc[c] = "gathering" =>
         \A i \in 1..Len(task[c]) :
           task[c][i].st # "done" =>
             ENABLED (TaskStart(c, i) \/ TaskResume(c, i))
    /\ (pc[c] = "done" /\ Len(chunks[c]) > 0) =>
         /\ ret[c].kind = "dict"
         /\ Len(ret[c].provider_responses) = Len(chunks[c])
         /\ \A i \in 1..Len(chunks[c]) :
              LET t == task[c][i]
                  r == ret[c].provider_responses[i]
              IN /\ t.st = "done"
                 /\ r.chunk_id = chunks[c][i].chunk_id
                 /\ t.result.kind = "exception" =>
                      ~r.success /\ r.error = t.result.error
                 /\ t.result.kind = "response" => r = t.result.value
         /\ \A i, j \in 1..Len(chunks[c]) :
              i # j => chunks[c][i].chunk_id # chunks[c][j].chunk_id

\* a call of two chunks where the first chunk failed on every backend after
\* the second had already succeeded
C8_Witness ==
  \E c \in Callers :
    /\ pc[c] = "done"
    /\ Len(chunks[c]) >= 2
    /\ ~ret[c].provider_responses[1].success
    /\ ret[c].provider_responses[2].success
    /\ Len(invoked[c][1]) = 2
    /\ ret[c].success

\* both chunk tasks of a call are waiting for a backend at the same time
C8_BothInFlight ==
  \E c \in Callers :
    /\ pc[c] = "gathering"
    /\ Len(task[c]) >= 2
    /\ \A i \in 1..Len(task[c]) : task[c][i].st = "awaiting"

\* every task of a call raised
C8_AllRaised ==
  \E c \in Callers :
    /\ pc[c] = "done"
    /\ Len(task[c]) >= 2
    /\ \A i \in 1..Len(task[c]) : task[c][i].result.kind = "exception"


\* ------------------------------------------------------------ liveness
\* The event loop runs every task that is ready, and every provider.query
\* ends (each adapter passes its own timeout to the HTTP client): a step
\* that stays possible is eventually taken.
SpecLive == Spec /\ WF_vars(Next)

SpecFanOutLive == SpecFanOut /\ WF_vars(Next)

\* every call asked for has come back to its caller
AllCallsBack ==
  /\ reg_pc = "ready"
  /\ \A c \in Callers :
       request[c].calls =>
         /\ pc[c] = "done"
         /\ ret[c].kind \in {"dict", "raised"}
         /\ \A i \in 1..Len(task[c]) : task[c][i].st = "done"

\* C30: provided every backend call returns or raises, every chunk's
\* attempt loop ends after at most 3 iterations and every call of
\* query_ai / query_ai_async comes back to its caller, whatever the
\* backends answer.
C30_EveryCallComesBack ==
  /\ [](\A ci \in Tasks :
          /\ task[ci[1]][ci[2]].attempt <= MaxCascade
          /\ Len(invoked[ci[1]][ci[2]]) <= MaxCascade)
  /\ (reg_pc = "ready") ~> AllCallsBack

\* a call whose chunk went three times round the loop, failed every time,
\* and came back
C30_Witness ==
  \E c \in Callers :
    /\ pc[c] = "done"
    /\ Len(task[c]) = 1
    /\ task[c][1].attempt = MaxCascade
    /\ Len(invoked[c][1]) = MaxCascade
    /\ ret[c].kind = "dict"
    /\ ~ret[c].success

====
